---- MODULE Spec2Model ----
(***************************************************************************)
(* A model of gitbom-rs (src/src/lib.rs): the gitoid generator GitOid      *)
(* (generate_git_oid, generate_git_oid_from_buffer) and the manifest       *)
(* GitBom (new, add).                                                      *)
(*                                                                         *)
(* Byte strings and Rust Strings are sequences of byte values.  The hash   *)
(* primitives of the sha1 and sha2 crates are not part of the repository:  *)
(* a hasher is modelled by the byte sequence it has been fed so far, and   *)
(* a digest by the pair (algorithm, bytes hashed), i.e. as a collision     *)
(* free function of its input.                                             *)
(***************************************************************************)
EXTENDS Integers, Sequences, FiniteSets, TLC

VARIABLES
    gitOids,          \* GitBom.gitOids: Vec<String>
    added,            \* history: how many add calls completed, per identifier
    useLock,          \* shared-manifest harness: are add/read wrapped in a mutex
    lock,             \* shared-manifest harness: the set holding the mutex's owner
    tpc,              \* shared-manifest harness: each thread's position
    seen,             \* shared-manifest harness: what the last read observed
    stream,           \* the byte source handed to generate_git_oid_from_buffer
    expected_length,  \* its caller-supplied expected_length
    next_call,        \* index into Calls of the caller's next call
    pc,               \* position inside generate_git_oid_from_buffer
    hash_algorithm,   \* self.hash_algorithm of the running call
    reader,           \* the running call's BufReader: position, reads made
    prefix,           \* local prefix
    buf,              \* local buf
    amount_read,      \* local amount_read
    hasher,           \* local hasher
    ret,              \* per algorithm: what generate_git_oid_from_buffer returned
    trace,            \* history: per algorithm, how that call's reading went
    direct            \* per algorithm: what generate_git_oid returned

bomVars    == <<gitOids, added>>
sharedVars == <<useLock, lock, tpc, seen>>
hashVars   == <<stream, expected_length, next_call, pc, hash_algorithm, reader,
                prefix, buf, amount_read, hasher, ret, trace, direct>>
vars       == <<gitOids, added, useLock, lock, tpc, seen,
                stream, expected_length, next_call, pc, hash_algorithm, reader,
                prefix, buf, amount_read, hasher, ret, trace, direct>>

None == "None"

\* Option values: Nothing, or Some(v) holding v as The(o).
Nothing == <<>>
Some(v) == <<v>>
The(o)  == o[1]

Min(a, b) == IF a <= b THEN a ELSE b

\* All sequences over S of length 0..n.
SeqsUpTo(S, n) == UNION {[1..k -> S] : k \in 0..n}

(***************************************************************************)
(* GitBom                                                                  *)
(***************************************************************************)

\* Bounds of the manifest model.
MaxIdLen == 2
MaxAdds  == 4

\* The characters identifiers are built from: '8' and 'f', two of the hex
\* digits the identifiers of test_gitbom_gitoids_are_sorted start with.
IdChars == {56, 102}
Ids     == SeqsUpTo(IdChars, MaxIdLen)

\* Ord for String: byte-wise lexicographic comparison, a proper prefix first.
RECURSIVE StrLe(_, _)
StrLe(a, b) ==
    IF a = <<>> THEN TRUE
    ELSE IF b = <<>> THEN FALSE
    ELSE IF Head(a) < Head(b) THEN TRUE
    ELSE IF Head(a) > Head(b) THEN FALSE
    ELSE StrLe(Tail(a), Tail(b))

\* Vec::push
Push(v, x) == Append(v, x)

\* slice::sort, a stable sort: x goes after the elements that are <= x.
RECURSIVE SortedInsert(_, _)
SortedInsert(s, x) ==
    IF s = <<>> THEN <<x>>
    ELSE IF StrLe(Head(s), x) THEN <<Head(s)>> \o SortedInsert(Tail(s), x)
    ELSE <<x>> \o s

RECURSIVE SortUnstableDedup(_)
SortUnstableDedup(v) ==
    IF v = <<>> THEN <<>>
    ELSE LET rest == SortUnstableDedup(SubSeq(v, 1, Len(v) - 1))
             x    == v[Len(v)]
         IN IF \E i \in 1..Len(rest) : rest[i] = x THEN rest
            ELSE SortedInsert(rest, x)

RECURSIVE Sort(_)
Sort(v) ==
    IF v = <<>> THEN <<>>
    ELSE SortedInsert(Sort(SubSeq(v, 1, Len(v) - 1)), v[Len(v)])

\* GitBom::new
new == <<>>

NoneAdded == [id \in Ids |-> 0]
Total(cnt) ==
    LET RECURSIVE Sum(_)
        Sum(S) == IF S = {} THEN 0
                  ELSE LET x == CHOOSE y \in S : TRUE IN cnt[x] + Sum(S \ {x})
    IN Sum(DOMAIN cnt)

\* add without the re-sort.
addUnsorted(gitoid) ==
    /\ Total(added) < MaxAdds
    /\ gitOids' = Push(gitOids, gitoid)
    /\ added' = [added EXCEPT ![gitoid] = @ + 1]

\* add into a set-like manifest: a duplicate is merged.
addDedup(gitoid) ==
    /\ Total(added) < MaxAdds
    /\ gitOids' = SortUnstableDedup(Push(gitOids, gitoid))
    /\ added' = [added EXCEPT ![gitoid] = @ + 1]

\* GitBom::add
add(gitoid) ==
    /\ Total(added) < MaxAdds
    /\ gitOids' = Sort(Push(gitOids, gitoid))
    /\ added' = [added EXCEPT ![gitoid] = @ + 1]

InitBomPart ==
    /\ gitOids = new
    /\ added = NoneAdded

(***************************************************************************)
(* One manifest shared by several threads.  The harness (threads, mutex,   *)
(* read) is the usage section 5 of the specification describes; the two    *)
(* statements of add are the code's.                                       *)
(***************************************************************************)

NWriters == 2

Writers == 1..NWriters
TheReader == 0
Threads == Writers \cup {TheReader}

At(t, where) == tpc[t].at = where

\* The writers inside a call of add.
InAdd == {w \in Writers : tpc[w].at # "idle"}
Goto(t, where, id) == tpc' = [tpc EXCEPT ![t] = [at |-> where, id |-> id]]

InitSharedPart ==
    /\ lock = {}
    /\ tpc = [t \in Threads |-> [at |-> "idle", id |-> Nothing]]
    /\ seen = Nothing

\* A thread enters add or a read; with the mutex, only when it is free.
Acquire(t) ==
    /\ At(t, "idle")
    /\ t \in Writers => Total(added) + Cardinality(InAdd) < MaxAdds
    /\ useLock => lock = {}
    /\ lock' = IF useLock THEN {t} ELSE lock
    /\ Goto(t, "in", Nothing)
    /\ UNCHANGED <<gitOids, added, useLock, seen>>

\* add, first statement: self.gitOids.push(gitoid)
add_push(t, gitoid) ==
    /\ t \in Writers
    /\ At(t, "in")
    /\ gitOids' = Push(gitOids, gitoid)
    /\ Goto(t, "pushed", Some(gitoid))
    /\ UNCHANGED <<added, useLock, lock, seen>>

\* add that returns after the push, leaving the re-sort out.
add_sort_skipped(t) ==
    /\ t \in Writers
    /\ At(t, "pushed")
    /\ gitOids' = gitOids
    /\ added' = [added EXCEPT ![The(tpc[t].id)] = @ + 1]
    /\ Goto(t, "out", Nothing)
    /\ UNCHANGED <<useLock, lock, seen>>

\* add, second statement: self.gitOids.sort(), and the return.
add_sort(t) ==
    /\ t \in Writers
    /\ At(t, "pushed")
    /\ gitOids' = Sort(gitOids)
    /\ added' = [added EXCEPT ![The(tpc[t].id)] = @ + 1]
    /\ Goto(t, "out", Nothing)
    /\ UNCHANGED <<useLock, lock, seen>>

\* A read of the sequence: what it observes, and the adds completed by then.
ReadManifest(t) ==
    /\ t = TheReader
    /\ At(t, "in")
    /\ seen' = Some([vec |-> gitOids, done |-> added])
    /\ Goto(t, "out", Nothing)
    /\ UNCHANGED <<gitOids, added, useLock, lock>>

\* The thread leaves add or the read; the read's snapshot goes out of scope.
Release(t) ==
    /\ At(t, "out")
    /\ lock' = IF useLock THEN {} ELSE lock
    /\ seen' = IF t = TheReader THEN Nothing ELSE seen
    /\ Goto(t, "idle", Nothing)
    /\ UNCHANGED <<gitOids, added, useLock>>

(***************************************************************************)
(* GitOid                                                                  *)
(***************************************************************************)

\* Bounds of the generator model.
ShortLen   == 2   \* every content over Bytes up to this length is an input
MaxLen     == 11  \* longest content: a prefix of LongContent
MaxSkew    == 1   \* how far expected_length may be from the content's length
BufLen     == 3   \* length of buf (4096 in the source), scaled to the contents
MaxStop    == 3   \* latest read at which a stream fails or ends early

HashAlgorithm == {"SHA1", "SHA256"}

\* NUL and '1': bytes that also occur in the framing prefix.
Bytes == {0, 49}

\* "hello world!!", the longest input of the tests.
LongContent == <<104, 101, 108, 108, 111, 32, 119, 111, 114, 108, 100, 33, 33>>

Contents ==
    SeqsUpTo(Bytes, ShortLen)
        \cup {SubSeq(LongContent, 1, n) : n \in (ShortLen + 1)..Min(MaxLen, Len(LongContent))}

\* What a byte source does: the bytes it holds, the two sizes its successive
\* reads deliver in turn (cut to what is left and to the buffer), and the read
\* (0: none) that instead fails ("err") or reports end-of-data early ("eof").
Streams ==
    {s \in [data   : Contents,
            sizes  : [1..2 -> 1..BufLen],
            stopAt : 0..MaxStop,
            stopAs : {"eof", "err"}] : s.stopAt = 0 => s.stopAs = "eof"}

\* Display for usize: the decimal digits, most significant first.
RECURSIVE Decimal(_)
Decimal(n) ==
    IF n < 10 THEN <<48 + n>>
    ELSE Append(Decimal(n \div 10), 48 + (n % 10))

\* format!("blob {}\0", len).as_bytes()
FramingPrefix(len) == <<98, 108, 111, 98, 32>> \o Decimal(len) \o <<0>>

\* Sha1::new() / Sha256::new(), update and finalize: a hasher is what it was fed.
HasherNew(alg)       == [alg |-> alg, fed |-> <<>>]
HasherUpdate(h, bs)  == [h EXCEPT !.fed = @ \o bs]
HasherFinalize(h)    == [alg |-> h.alg, of |-> h.fed]

\* hex::encode: two lowercase hex characters per digest byte.
HexEncode(hash) ==
    [hex |-> hash, len |-> IF hash.alg = "SHA1" THEN 40 ELSE 64]

\* generate_git_oid, SHA1 branch with the two updates in the wrong order.
Sha1GitOidSwapped(prefix_bytes, content) ==
    HexEncode(HasherFinalize(
        HasherUpdate(HasherUpdate(HasherNew("SHA1"), content), prefix_bytes)))

\* generate_git_oid, SHA1 branch.
Sha1GitOid(prefix_bytes, content) ==
    HexEncode(HasherFinalize(
        HasherUpdate(HasherUpdate(HasherNew("SHA1"), prefix_bytes), content)))

\* generate_git_oid, SHA256 branch.
Sha256GitOid(prefix_bytes, content) ==
    HexEncode(HasherFinalize(
        HasherUpdate(HasherUpdate(HasherNew("SHA256"), prefix_bytes), content)))

\* GitOid::generate_git_oid
generate_git_oid(self_hash_algorithm, content) ==
    LET prefix_bytes == FramingPrefix(Len(content))
    IN IF self_hash_algorithm = "SHA1"
       THEN Sha1GitOid(prefix_bytes, content)
       ELSE Sha256GitOid(prefix_bytes, content)

\* The caller: the four calls of the tests, in their order.
Calls ==
    << [fn |-> "generate_git_oid",             alg |-> "SHA1"],
       [fn |-> "generate_git_oid_from_buffer", alg |-> "SHA1"],
       [fn |-> "generate_git_oid",             alg |-> "SHA256"],
       [fn |-> "generate_git_oid_from_buffer", alg |-> "SHA256"] >>

CallIs(fn) ==
    /\ pc = "idle"
    /\ next_call <= Len(Calls)
    /\ Calls[next_call].fn = fn

\* The hasher variable before either branch has created its hasher.
NoHasher == [alg |-> None, fed |-> <<>>]

FreshReader == [pos |-> 0, nreads |-> 0, last |-> "none", size |-> 0]
ZeroBuf     == [i \in 1..BufLen |-> 0]

InitHashPart ==
    /\ next_call = 1
    /\ pc = "idle"
    /\ hash_algorithm = None
    /\ reader = FreshReader
    /\ prefix = <<>>
    /\ buf = ZeroBuf
    /\ amount_read = 0
    /\ hasher = NoHasher
    /\ ret = [a \in HashAlgorithm |-> Nothing]
    /\ trace = [a \in HashAlgorithm |-> Nothing]
    /\ direct = [a \in HashAlgorithm |-> Nothing]

\* reader.read(&mut buf): the outcome of the next read and the bytes it yields.
ReadResult ==
    LET n    == reader.nreads + 1
        want == stream.sizes[((n - 1) % Len(stream.sizes)) + 1]
        left == Len(stream.data) - reader.pos
        size == Min(Min(want, BufLen), left)
    IN IF stream.stopAt = n
       THEN [kind |-> IF stream.stopAs = "err" THEN "Err" ELSE "Ok", size |-> 0]
       ELSE [kind |-> "Ok", size |-> size]

\* The reader and the buffer after a read that delivered size bytes.
ReaderAfter(size, how) ==
    [pos |-> reader.pos + size, nreads |-> reader.nreads + 1,
     last |-> how, size |-> size]
BufAfter(size) ==
    [i \in 1..BufLen |-> IF i <= size THEN stream.data[reader.pos + i] ELSE buf[i]]
BufSlice(b, size) == [i \in 1..size |-> b[i]]

\* The caller calls generate_git_oid on the stream's content.
CallGenerateGitOid ==
    /\ CallIs("generate_git_oid")
    /\ direct' = [direct EXCEPT ![Calls[next_call].alg] =
                      Some(generate_git_oid(Calls[next_call].alg, stream.data))]
    /\ next_call' = next_call + 1
    /\ UNCHANGED <<stream, expected_length, pc, hash_algorithm, reader, prefix,
                   buf, amount_read, hasher, ret, trace>>

\* Entry with the prefix built from the length of what the stream holds.
EnterFromBufferMeasured ==
    /\ CallIs("generate_git_oid_from_buffer")
    /\ hash_algorithm' = Calls[next_call].alg
    /\ reader' = FreshReader
    /\ prefix' = FramingPrefix(Len(stream.data))
    /\ buf' = ZeroBuf
    /\ amount_read' = 0
    /\ hasher' = NoHasher
    /\ pc' = "dispatch"
    /\ UNCHANGED <<stream, expected_length, next_call, ret, trace, direct>>

\* generate_git_oid_from_buffer, entry: prefix, buf, amount_read.
EnterFromBuffer ==
    /\ CallIs("generate_git_oid_from_buffer")
    /\ hash_algorithm' = Calls[next_call].alg
    /\ reader' = FreshReader
    /\ prefix' = FramingPrefix(expected_length)
    /\ buf' = ZeroBuf
    /\ amount_read' = 0
    /\ hasher' = NoHasher
    /\ pc' = "dispatch"
    /\ UNCHANGED <<stream, expected_length, next_call, ret, trace, direct>>

(***************************************************************************)
(* generate_git_oid_from_buffer, SHA1 branch                               *)
(***************************************************************************)

InSha1 == hash_algorithm = "SHA1"

\* hasher = new(); hasher.update(prefix.as_bytes())
Sha1Begin ==
    /\ pc = "dispatch"
    /\ InSha1
    /\ hasher' = HasherUpdate(HasherNew("SHA1"), prefix)
    /\ pc' = "loop"
    /\ UNCHANGED <<stream, expected_length, next_call, hash_algorithm, reader,
                   prefix, buf, amount_read, ret, trace, direct>>

\* Ok(0) => break
Sha1ReadZero ==
    /\ pc = "loop"
    /\ InSha1
    /\ ReadResult.kind = "Ok"
    /\ ReadResult.size = 0
    /\ reader' = ReaderAfter(0, "eof")
    /\ pc' = "final"
    /\ UNCHANGED <<stream, expected_length, next_call, hash_algorithm, prefix,
                   buf, amount_read, hasher, ret, trace, direct>>

\* The read arm feeding the whole buffer, not only the bytes just read.
Sha1ReadOkStale ==
    /\ pc = "loop"
    /\ InSha1
    /\ ReadResult.kind = "Ok"
    /\ ReadResult.size > 0
    /\ reader' = ReaderAfter(ReadResult.size, "ok")
    /\ buf' = BufAfter(ReadResult.size)
    /\ hasher' = HasherUpdate(hasher, BufSlice(buf', BufLen))
    /\ amount_read' = amount_read + ReadResult.size
    /\ UNCHANGED <<stream, expected_length, next_call, pc, hash_algorithm,
                   prefix, ret, trace, direct>>

\* Ok(size) => hasher.update(&buf[..size]); amount_read = amount_read + size
Sha1ReadOk ==
    /\ pc = "loop"
    /\ InSha1
    /\ ReadResult.kind = "Ok"
    /\ ReadResult.size > 0
    /\ reader' = ReaderAfter(ReadResult.size, "ok")
    /\ buf' = BufAfter(ReadResult.size)
    /\ hasher' = HasherUpdate(hasher, BufSlice(buf', ReadResult.size))
    /\ amount_read' = amount_read + ReadResult.size
    /\ UNCHANGED <<stream, expected_length, next_call, pc, hash_algorithm,
                   prefix, ret, trace, direct>>

\* The error arm going round the loop again instead of breaking.
Sha1ReadErrRetry ==
    /\ pc = "loop"
    /\ InSha1
    /\ ReadResult.kind = "Err"
    /\ reader' = ReaderAfter(0, "err")
    /\ UNCHANGED <<stream, expected_length, next_call, pc, hash_algorithm, prefix,
                   buf, amount_read, hasher, ret, trace, direct>>

\* Err(_) => break
Sha1ReadErr ==
    /\ pc = "loop"
    /\ InSha1
    /\ ReadResult.kind = "Err"
    /\ reader' = ReaderAfter(0, "err")
    /\ pc' = "final"
    /\ UNCHANGED <<stream, expected_length, next_call, hash_algorithm, prefix,
                   buf, amount_read, hasher, ret, trace, direct>>

\* hash = hasher.finalize(); hex::encode(hash), returned to the caller
Sha1Finish ==
    /\ pc = "final"
    /\ InSha1
    /\ ret' = [ret EXCEPT ![Calls[next_call].alg] = Some(HexEncode(HasherFinalize(hasher)))]
    /\ trace' = [trace EXCEPT ![Calls[next_call].alg] =
                    Some([reads |-> reader.nreads, pos |-> reader.pos, end |-> reader.last])]
    /\ next_call' = next_call + 1
    /\ pc' = "idle"
    /\ UNCHANGED <<stream, expected_length, hash_algorithm, reader, prefix,
                   buf, amount_read, hasher, direct>>

(***************************************************************************)
(* generate_git_oid_from_buffer, SHA256 branch                               *)
(***************************************************************************)

InSha256 == hash_algorithm = "SHA256"

\* The branch starting its hasher without the framing prefix.
Sha256BeginNoPrefix ==
    /\ pc = "dispatch"
    /\ InSha256
    /\ hasher' = HasherNew("SHA256")
    /\ pc' = "loop"
    /\ UNCHANGED <<stream, expected_length, next_call, hash_algorithm, reader,
                   prefix, buf, amount_read, ret, trace, direct>>

\* hasher = new(); hasher.update(prefix.as_bytes())
Sha256Begin ==
    /\ pc = "dispatch"
    /\ InSha256
    /\ hasher' = HasherUpdate(HasherNew("SHA256"), prefix)
    /\ pc' = "loop"
    /\ UNCHANGED <<stream, expected_length, next_call, hash_algorithm, reader,
                   prefix, buf, amount_read, ret, trace, direct>>

\* The zero arm reading again while the source still holds bytes.
Sha256ReadZeroContinue ==
    /\ pc = "loop"
    /\ InSha256
    /\ ReadResult.kind = "Ok"
    /\ ReadResult.size = 0
    /\ reader' = ReaderAfter(0, "eof")
    /\ pc' = IF reader.pos < Len(stream.data) THEN "loop" ELSE "final"
    /\ UNCHANGED <<stream, expected_length, next_call, hash_algorithm, prefix,
                   buf, amount_read, hasher, ret, trace, direct>>

\* Ok(0) => break
Sha256ReadZero ==
    /\ pc = "loop"
    /\ InSha256
    /\ ReadResult.kind = "Ok"
    /\ ReadResult.size = 0
    /\ reader' = ReaderAfter(0, "eof")
    /\ pc' = "final"
    /\ UNCHANGED <<stream, expected_length, next_call, hash_algorithm, prefix,
                   buf, amount_read, hasher, ret, trace, direct>>

\* The read arm feeding the whole buffer, not only the bytes just read.
Sha256ReadOkStale ==
    /\ pc = "loop"
    /\ InSha256
    /\ ReadResult.kind = "Ok"
    /\ ReadResult.size > 0
    /\ reader' = ReaderAfter(ReadResult.size, "ok")
    /\ buf' = BufAfter(ReadResult.size)
    /\ hasher' = HasherUpdate(hasher, BufSlice(buf', BufLen))
    /\ amount_read' = amount_read + ReadResult.size
    /\ UNCHANGED <<stream, expected_length, next_call, pc, hash_algorithm,
                   prefix, ret, trace, direct>>

\* Ok(size) => hasher.update(&buf[..size]); amount_read = amount_read + size
Sha256ReadOk ==
    /\ pc = "loop"
    /\ InSha256
    /\ ReadResult.kind = "Ok"
    /\ ReadResult.size > 0
    /\ reader' = ReaderAfter(ReadResult.size, "ok")
    /\ buf' = BufAfter(ReadResult.size)
    /\ hasher' = HasherUpdate(hasher, BufSlice(buf', ReadResult.size))
    /\ amount_read' = amount_read + ReadResult.size
    /\ UNCHANGED <<stream, expected_length, next_call, pc, hash_algorithm,
                   prefix, ret, trace, direct>>

\* Err(_) => break
Sha256ReadErr ==
    /\ pc = "loop"
    /\ InSha256
    /\ ReadResult.kind = "Err"
    /\ reader' = ReaderAfter(0, "err")
    /\ pc' = "final"
    /\ UNCHANGED <<stream, expected_length, next_call, hash_algorithm, prefix,
                   buf, amount_read, hasher, ret, trace, direct>>

\* hash = hasher.finalize(); hex::encode(hash), returned to the caller
Sha256Finish ==
    /\ pc = "final"
    /\ InSha256
    /\ ret' = [ret EXCEPT ![Calls[next_call].alg] = Some(HexEncode(HasherFinalize(hasher)))]
    /\ trace' = [trace EXCEPT ![Calls[next_call].alg] =
                    Some([reads |-> reader.nreads, pos |-> reader.pos, end |-> reader.last])]
    /\ next_call' = next_call + 1
    /\ pc' = "idle"
    /\ UNCHANGED <<stream, expected_length, hash_algorithm, reader, prefix,
                   buf, amount_read, hasher, direct>>

(***************************************************************************)
(* Specifications                                                          *)
(***************************************************************************)

\* Any stream and expected_length; the manifest is not involved.
InitStream ==
    /\ stream \in Streams
    /\ expected_length \in
           {n \in 0..(MaxLen + MaxSkew) :
                /\ n - Len(stream.data) <= MaxSkew
                /\ Len(stream.data) - n <= MaxSkew}

NoStream ==
    /\ stream = [data |-> <<>>, sizes |-> <<1>>, stopAt |-> 0, stopAs |-> "eof"]
    /\ expected_length = 0

\* The generator: the caller's calls on one stream behaviour.
Init ==
    /\ InitStream
    /\ InitHashPart
    /\ InitBomPart
    /\ useLock = FALSE
    /\ InitSharedPart

\* The manifest and the thread harness take no part in the generator's calls.
OthersIdle == UNCHANGED <<gitOids, added, useLock, lock, tpc, seen>>

Next ==
    \/ (CallGenerateGitOid /\ OthersIdle)
    \/ (EnterFromBuffer /\ OthersIdle)
    \/ (Sha1Begin /\ OthersIdle)
    \/ (Sha1ReadZero /\ OthersIdle)
    \/ (Sha1ReadOk /\ OthersIdle)
    \/ (Sha1ReadErr /\ OthersIdle)
    \/ (Sha1Finish /\ OthersIdle)
    \/ (Sha256Begin /\ OthersIdle)
    \/ (Sha256ReadZero /\ OthersIdle)
    \/ (Sha256ReadOk /\ OthersIdle)
    \/ (Sha256ReadErr /\ OthersIdle)
    \/ (Sha256Finish /\ OthersIdle)

Spec == Init /\ [][Next]_vars

\* The calls are sequential code that runs to completion.
FairSpec == Init /\ [][Next]_vars /\ WF_vars(Next)

\* The manifest, used by one caller.
InitBom ==
    /\ InitBomPart
    /\ NoStream
    /\ InitHashPart
    /\ useLock = FALSE
    /\ InitSharedPart

AddAny == \E gitoid \in Ids : add(gitoid) /\ UNCHANGED sharedVars /\ UNCHANGED hashVars

NextBom == AddAny

SpecBom == InitBom /\ [][NextBom]_vars

\* The manifest shared by threads that wrap every add and read in one mutex.
InitShared ==
    /\ InitBomPart
    /\ NoStream
    /\ InitHashPart
    /\ useLock = TRUE
    /\ InitSharedPart

NextShared ==
    \/ \E t \in Threads : (Acquire(t) /\ UNCHANGED hashVars)
    \/ \E t \in Threads : \E gitoid \in Ids : (add_push(t, gitoid) /\ UNCHANGED hashVars)
    \/ \E t \in Threads : (add_sort(t) /\ UNCHANGED hashVars)
    \/ \E t \in Threads : (ReadManifest(t) /\ UNCHANGED hashVars)
    \/ \E t \in Threads : (Release(t) /\ UNCHANGED hashVars)

SpecShared == InitShared /\ [][NextShared]_vars

\* The same threads without the mutex: the statements of add interleave.
InitRacy ==
    /\ InitBomPart
    /\ NoStream
    /\ InitHashPart
    /\ useLock = FALSE
    /\ InitSharedPart

SpecRacy == InitRacy /\ [][NextShared]_vars

(***************************************************************************)
(* The manifest's properties                                               *)
(***************************************************************************)

\* a <= b as strings: a is a prefix of b, or a is smaller at the first
\* position where they differ.
LexLeq(a, b) ==
    \/ /\ Len(a) <= Len(b)
       /\ \A i \in 1..Len(a) : a[i] = b[i]
    \/ \E k \in 1..Min(Len(a), Len(b)) :
          /\ \A i \in 1..(k - 1) : a[i] = b[i]
          /\ a[k] < b[k]

IsSortedLex(v) == \A i \in 1..(Len(v) - 1) : LexLeq(v[i], v[i + 1])

Count(v, id) == Cardinality({i \in 1..Len(v) : v[i] = id})

\* C1: after every add, for any sequence of adds (duplicates and identifiers
\* of different lengths included), gitOids is in ascending lexicographic
\* order: gitOids[i] <= gitOids[i+1] for all adjacent indices.
C1_GitOidsSorted == IsSortedLex(gitOids)

C1_Witness ==
    /\ Len(gitOids) >= 3
    /\ \E i \in 1..(Len(gitOids) - 1) : gitOids[i] = gitOids[i + 1]
    /\ \E i \in 1..(Len(gitOids) - 1) : Len(gitOids[i]) > Len(gitOids[i + 1])

\* C4: a new manifest has length 0; after n adds its length is n and every
\* identifier occurs in gitOids exactly as often as it was added.
C4_LengthAndMultiplicity ==
    /\ Len(gitOids) = Total(added)
    /\ \A id \in Ids : Count(gitOids, id) = added[id]
    /\ Total(added) = 0 => gitOids = <<>>

C4_Witness ==
    /\ Len(gitOids) >= 3
    /\ \E id \in Ids : added[id] >= 2 /\ Count(gitOids, id) = added[id]
    /\ \E id \in Ids : added[id] = 0

RacyReadsSorted == seen # Nothing => IsSortedLex(The(seen).vec)

(***************************************************************************)
(* The generator's properties                                              *)
(***************************************************************************)

Returned(a)  == ret[a] # Nothing
Computed(a)  == direct[a] # Nothing

\* The bytes a hasher was fed before the identifier oid was produced.
FedOf(oid) == oid.hex.of

\* The bytes the successful reads of a's call yielded, in order.
Delivered(a) == SubSeq(stream.data, 1, The(trace[a]).pos)

\* The identifier of the bytes "blob <n>\0" followed by bytes, under a.
FramedOid(a, n, bytes) ==
    [hex |-> [alg |-> a, of |-> FramingPrefix(n) \o bytes],
     len |-> IF a = "SHA1" THEN 40 ELSE 64]

InCall == pc \in {"loop", "final"}

\* The number a sequence of decimal digits denotes.
RECURSIVE DecValue(_)
DecValue(d) ==
    IF d = <<>> THEN 0
    ELSE 10 * DecValue(SubSeq(d, 1, Len(d) - 1)) + (d[Len(d)] - 48)

\* C2: for both algorithms and every content c, if the stream yields exactly
\* the bytes of c (however split into reads) without a read error and
\* expected_length = len(c), generate_git_oid_from_buffer returns what
\* generate_git_oid(c) returns.
C2_BufferEqualsDirect ==
    \A a \in HashAlgorithm :
        (/\ Returned(a)
         /\ The(trace[a]).end = "eof"
         /\ expected_length = Len(Delivered(a)))
        => /\ The(ret[a]) = generate_git_oid(a, Delivered(a))
           /\ Delivered(a) = stream.data => ret[a] = direct[a]

C2_Witness ==
    /\ Returned("SHA1") /\ Returned("SHA256")
    /\ The(trace["SHA256"]).end = "eof"
    /\ The(trace["SHA256"]).reads >= 4
    /\ Delivered("SHA256") = stream.data
    /\ Len(stream.data) = 11
    /\ expected_length = 11
    /\ \E i \in 1..Len(stream.sizes) : stream.sizes[i] # stream.sizes[1]
    /\ ret["SHA256"] = direct["SHA256"]

\* C3: for every content c, the empty one included, and either algorithm,
\* the bytes generate_git_oid feeds its hasher are exactly "blob ", the
\* decimal text of len(c) without sign or leading zeros, one 0x00 byte, and
\* the bytes of c, in that order, with nothing before, between or after.
C3_DirectFraming ==
    \A a \in HashAlgorithm :
        Computed(a) =>
            LET fed == FedOf(The(direct[a]))
                c   == stream.data
                k   == Len(fed) - 6 - Len(c)
                d   == SubSeq(fed, 6, 5 + k)
            IN /\ k >= 1
               /\ SubSeq(fed, 1, 5) = <<98, 108, 111, 98, 32>>
               /\ \A i \in 1..k : d[i] \in 48..57
               /\ k > 1 => d[1] # 48
               /\ DecValue(d) = Len(c)
               /\ fed[6 + k] = 0
               /\ SubSeq(fed, 7 + k, Len(fed)) = c
               /\ The(direct[a]).hex.alg = a

C3_Witness ==
    /\ Computed("SHA1") /\ Computed("SHA256")
    /\ Len(stream.data) >= 10
    /\ Len(FedOf(The(direct["SHA256"]))) = 8 + Len(stream.data)

\* C3, the empty content: its framing is "blob 0\0" and nothing else.
C3_EmptyWitness ==
    /\ Computed("SHA1")
    /\ stream.data = <<>>
    /\ FedOf(The(direct["SHA1"])) = <<98, 108, 111, 98, 32, 48, 0>>

\* C5: a read error, on the first read or a later one, ends the read loop
\* without a failure: the call returns the identifier of "blob
\* {expected_length}\0" followed by exactly the bytes of the successful reads
\* before the error, as for a stream that ended cleanly at that point.
C5_ErrorEndsLikeEof ==
    /\ reader.last = "err" => pc \in {"final", "idle"}
    /\ (pc = "final" /\ reader.last = "err") =>
           hasher.fed = FramingPrefix(expected_length)
                            \o SubSeq(stream.data, 1, reader.pos)
    /\ \A a \in HashAlgorithm :
           (Returned(a) /\ The(trace[a]).end = "err") =>
               The(ret[a]) = FramedOid(a, expected_length, Delivered(a))

C5_Witness ==
    /\ Returned("SHA1")
    /\ The(trace["SHA1"]).end = "err"
    /\ The(trace["SHA1"]).reads >= 2
    /\ Len(Delivered("SHA1")) > 0
    /\ Len(Delivered("SHA1")) < Len(stream.data)

\* C6: the framing prefix comes from the caller's expected_length, never from
\* the bytes read, and the two are never compared: when the stream's actual
\* length differs from expected_length the bytes hashed, and so the digest,
\* differ from those of generate_git_oid on the true content, and an
\* identifier is still returned.
C6_DeclaredLengthFrames ==
    /\ pc \in {"dispatch", "loop", "final"} => prefix = FramingPrefix(expected_length)
    /\ \A a \in HashAlgorithm :
          Returned(a) =>
              LET fed == FedOf(The(ret[a]))
                  pre == FramingPrefix(expected_length)
              IN /\ Len(fed) >= Len(pre)
                 /\ SubSeq(fed, 1, Len(pre)) = pre
                 /\ expected_length # Len(Delivered(a)) =>
                       /\ fed # FedOf(generate_git_oid(a, Delivered(a)))
                       /\ The(ret[a]) # generate_git_oid(a, Delivered(a))

C6_Witness ==
    /\ Returned("SHA1") /\ Returned("SHA256")
    /\ Len(stream.data) = 10
    /\ expected_length = 11
    /\ The(trace["SHA1"]).end = "eof"
    /\ Delivered("SHA1") = stream.data
    /\ ret["SHA1"] # direct["SHA1"]

\* The read at which the stream first answers with zero bytes or an error,
\* and the bytes delivered before it.
RECURSIVE FirstStop(_, _)
FirstStop(n, pos) ==
    IF stream.stopAt = n \/ pos = Len(stream.data)
    THEN [reads |-> n, pos |-> pos,
          end |-> IF stream.stopAt = n THEN stream.stopAs ELSE "eof"]
    ELSE LET want == stream.sizes[((n - 1) % Len(stream.sizes)) + 1]
         IN FirstStop(n + 1, pos + Min(Min(want, BufLen), Len(stream.data) - pos))

C8_StopsAtFirstStop ==
    /\ pc = "loop" => reader.last \in {"none", "ok"}
    /\ InCall => Len(hasher.fed) = Len(prefix) + reader.pos
    /\ \A a \in HashAlgorithm :
          Returned(a) =>
              /\ The(trace[a]) = FirstStop(1, 0)
              /\ Len(FedOf(The(ret[a]))) =
                     Len(FramingPrefix(expected_length)) + FirstStop(1, 0).pos

C8_ReturnsOnce ==
    \A a \in HashAlgorithm : Returned(a) => ret'[a] = ret[a]

\* C8: the read loop stops at the first read that returns zero bytes or an
\* error and reads no more; so the call finalizes and returns exactly one
\* identifier, and bytes the stream could still have delivered are never
\* hashed.
C8_LoopTerminates ==
    /\ [](C8_StopsAtFirstStop)
    /\ [][C8_ReturnsOnce]_vars
    /\ [](pc = "dispatch" => <>(pc = "idle"))
    /\ <>(\A a \in HashAlgorithm : Returned(a))

C8_Witness ==
    /\ Returned("SHA1") /\ Returned("SHA256")
    /\ The(trace["SHA256"]).end = "eof"
    /\ The(trace["SHA256"]).reads >= 2
    /\ The(trace["SHA256"]).pos < Len(stream.data)

\* C9: the result does not depend on how the stream splits its data into
\* reads: after the prefix the hasher is fed, in read order, exactly the
\* first size bytes of the buffer of each successful read, never stale bytes
\* of an earlier, longer read.
C9_ChunkingIndependent ==
    /\ InCall => hasher.fed = prefix \o SubSeq(stream.data, 1, reader.pos)
    /\ \A a \in HashAlgorithm :
          Returned(a) => The(ret[a]) = FramedOid(a, expected_length, Delivered(a))

C9_Witness ==
    /\ pc = "loop"
    /\ reader.last = "ok"
    /\ reader.nreads >= 2
    /\ reader.size < BufLen
    /\ buf[reader.size + 1] # 0
    /\ hasher.fed = prefix \o SubSeq(stream.data, 1, reader.pos)

\* C10: the SHA1 and SHA256 branches are parallel: for the same content, and
\* for the same stream behaviour and expected_length (streams that end early
\* or fail included), both feed their hasher the same bytes in the same order
\* and stop reading at the same point; only the hash primitive differs.
C10_BranchesParallel ==
    /\ (Returned("SHA1") /\ Returned("SHA256")) =>
          /\ FedOf(The(ret["SHA1"])) = FedOf(The(ret["SHA256"]))
          /\ trace["SHA1"] = trace["SHA256"]
    /\ (Computed("SHA1") /\ Computed("SHA256")) =>
          FedOf(The(direct["SHA1"])) = FedOf(The(direct["SHA256"]))
    /\ \A a \in HashAlgorithm :
          /\ Returned(a) => The(ret[a]).hex.alg = a
          /\ Computed(a) => The(direct[a]).hex.alg = a

C10_Witness ==
    /\ Returned("SHA1") /\ Returned("SHA256")
    /\ The(trace["SHA1"]).end = "err"
    /\ The(trace["SHA1"]).reads >= 3
    /\ ret["SHA1"] # ret["SHA256"]
====
